---------------------------- MODULE Spec2Model ----------------------------
(***************************************************************************)
(* A model of app_2.0.py, the WhatsApp bulk sender: the "Send WhatsApp     *)
(* Messages" tab.  The page state (table, template, mapping, image) is     *)
(* the state of the widgets when the Send button is pressed; the button    *)
(* handler persists the mapping, submits one send_message task per row to  *)
(* a thread pool, merges the results by row index and builds the report.   *)
(*                                                                         *)
(* Python strings are sequences of one-character strings, so that strip(), *)
(* startswith(), str() and the f-strings are computed, not assumed.        *)
(***************************************************************************)
EXTENDS Integers, Sequences, FiniteSets, TLC

\* ------------------------------------------------------------------------
\* Bounds of the model
\* ------------------------------------------------------------------------

\* The largest number of rows of the uploaded table.
MaxRows == 3

\* ------------------------------------------------------------------------
\* Python strings and values
\* ------------------------------------------------------------------------

Digit == <<"0", "1", "2", "3", "4", "5", "6", "7", "8", "9">>

RECURSIVE IntToStr(_)
\* str(n) of a non-negative int.
IntToStr(n) ==
    IF n < 10 THEN <<Digit[n + 1]>>
    ELSE IntToStr(n \div 10) \o <<Digit[(n % 10) + 1]>>

\* A cell of the table: text, an integer, or NaN (an empty cell).
StrCell(s) == [kind |-> "str", s |-> s]
IntCell(n) == [kind |-> "int", n |-> n]
NaNCell == [kind |-> "nan"]

\* str(v) of a cell value.
PyStr(v) ==
    CASE v.kind = "str" -> v.s
      [] v.kind = "int" -> IntToStr(v.n)
      [] v.kind = "nan" -> <<"n", "a", "n">>

IsSpace(c) == c = " "

RECURSIVE LStrip(_)
LStrip(s) ==
    IF s # <<>> /\ IsSpace(Head(s)) THEN LStrip(Tail(s)) ELSE s

RECURSIVE RStrip(_)
RStrip(s) ==
    IF s # <<>> /\ IsSpace(s[Len(s)]) THEN RStrip(SubSeq(s, 1, Len(s) - 1)) ELSE s

\* s.strip()
Strip(s) == RStrip(LStrip(s))

\* s.startswith(p)
StartsWith(s, p) == Len(s) >= Len(p) /\ SubSeq(s, 1, Len(p)) = p

\* row.get(key): without the default an absent label gives None, whose
\* text is "None".
RowGet_NoDefault(row, key) ==
    IF key \in DOMAIN row THEN row[key] ELSE StrCell(<<"N", "o", "n", "e">>)

\* row.get(key, ""): the cell under the column label, "" when there is none.
RowGet(row, key) == IF key \in DOMAIN row THEN row[key] ELSE StrCell(<<>>)

\* d.get(key, default) of a dict.
DictGet(d, key, default) == IF key \in DOMAIN d THEN d[key] ELSE default

\* {}
EmptyDict == [k \in {} |-> <<>>]

\* d[key] = val
DictSet(d, key, val) ==
    [k \in (DOMAIN d) \cup {key} |-> IF k = key THEN val ELSE d[k]]

\* ------------------------------------------------------------------------
\* Texts of the program
\* ------------------------------------------------------------------------

MOBILE_NO == <<"m", "o", "b", "i", "l", "e", "_", "n", "o">>
IMAGE_COLUMN == <<"i", "m", "a", "g", "e", "_", "c", "o", "l", "u", "m", "n">>
MEDIA == <<"m", "e", "d", "i", "a">>
HTTP_PREFIX == <<"h", "t", "t", "p">>
SUCCESS == <<"S", "u", "c", "c", "e", "s", "s">>
SENDER == <<"9", "1", "9", "3", "1", "1", "2", "3", "9", "2", "1", "1">>

\* f"HTTP {response.status_code}"
HttpText(code) == <<"H", "T", "T", "P", " ">> \o IntToStr(code)

\* ------------------------------------------------------------------------
\* Placeholders of a template message
\* ------------------------------------------------------------------------

\* The least index j >= from with s[j], s[j+1] = c, c; 0 when there is none.
RECURSIVE FindPair(_, _, _)
FindPair(s, c, from) ==
    IF from + 1 > Len(s) THEN 0
    ELSE IF s[from] = c /\ s[from + 1] = c THEN from
    ELSE FindPair(s, c, from + 1)

\* re.findall(r"\{\{(.*?)\}\}", s) from position p on: the leftmost "{{", the
\* nearest "}}" after it, the text between them, and on from behind the "}}".
RECURSIVE FindAllFrom(_, _)
FindAllFrom(s, p) ==
    LET i == FindPair(s, "{", p)
        j == IF i = 0 THEN 0 ELSE FindPair(s, "}", i + 2)
    IN  IF i = 0 \/ j = 0 THEN <<>>
        ELSE <<SubSeq(s, i + 2, j - 1)>> \o FindAllFrom(s, j + 2)

FindAll(s) == FindAllFrom(s, 1)

Range(f) == {f[x] : x \in DOMAIN f}


\* ------------------------------------------------------------------------
\* State
\* ------------------------------------------------------------------------

VARIABLES
    templates_file,  \* the content of templates.json: a sequence of templates
    cache,           \* what st.cache_resource holds for get_templates_cached
    saves,           \* how many times save_templates has written the file
    df,              \* the uploaded table: row index 0..N-1 -> row (label -> cell)
    df_columns,      \* df.columns: the labels of the table in their order
    template_obj,    \* the selected template
    column_mapping,  \* field -> [type, value], as the mapping widgets stand
    image_col_map,   \* the selected image column, "" for none
    image_url,       \* the link of the uploaded default image, "" for none
    api,             \* row index -> what the API may do with that row's request
    preview_message, \* the text of the message preview
    phase,           \* "manage" (the page is used, no table is mapped yet),
                     \* "setup", "running" (the Send handler is at work),
                     \* "done", "aborted" (the handler died of an exception
                     \* of a task), "stopped" (the script run was stopped)
    status,          \* row index -> "", "Sent", "Failed", "Error"
    response_texts,  \* row index -> message text
    completed,       \* the progress count of the merge loop
    submitted,       \* how many futures executor.submit has created
    fut,             \* row index -> future of the submitted task
    sent,            \* row index -> the payloads POSTed for that row
    writes,          \* row index -> how often its result slot was written
    report,          \* the report table, <<>> until it is built
    report_columns,  \* the labels of the report in their order
    highlighted      \* row index -> whether the sheet row is filled red

vars == <<templates_file, cache, saves, df, df_columns, template_obj,
          column_mapping, image_col_map, image_url, api, preview_message, phase,
          status, response_texts, completed, submitted, fut, sent, writes,
          report, report_columns, highlighted>>

setupVars == <<df, df_columns, template_obj, column_mapping, image_col_map,
               image_url, api>>
storeVars == <<templates_file, cache, saves>>
reportVars == <<report, report_columns, highlighted>>

\* len(df) and the row indices of df.iterrows().
Total == Cardinality(DOMAIN df)
Rows == DOMAIN df

\* ------------------------------------------------------------------------
\* send_message: the payload
\* ------------------------------------------------------------------------

\* A priority the other way round: the row's image column before the
\* uploaded image.
FinalImg_RowFirst(row) ==
    LET row_img_url == Strip(PyStr(RowGet(row, image_col_map)))
    IN  IF image_col_map # <<>> /\ StartsWith(row_img_url, HTTP_PREFIX)
        THEN row_img_url
        ELSE image_url

\* PRIORITY LOGIC: uploaded image > per-row image column > no image.
FinalImg(row) ==
    IF image_url # <<>> THEN image_url
    ELSE IF image_col_map # <<>>
    THEN LET row_img_url == Strip(PyStr(RowGet(row, image_col_map)))
         IN  IF StartsWith(row_img_url, HTTP_PREFIX) THEN row_img_url ELSE <<>>
    ELSE <<>>

\* The value of one mapped field for a row.
ResolveParam(row, mapinfo) ==
    IF mapinfo.type = "column"
    THEN Strip(PyStr(RowGet(row, mapinfo.value)))
    ELSE mapinfo.value

\* The values of the params dict as JSON: a string, or the media object.
JsonString(s) == [kind |-> "string", s |-> s]
MediaObject(link) == [kind |-> "object", mediaLink |-> link]

\* A loop without the "continue" for mobile_no.
BuildParams_KeepMobile(row) ==
    [field \in DOMAIN column_mapping |->
        JsonString(ResolveParam(row, column_mapping[field]))]

\* params, before the media entry: every mapped field but mobile_no.
BuildParams(row) ==
    [field \in (DOMAIN column_mapping) \ {MOBILE_NO} |->
        JsonString(ResolveParam(row, column_mapping[field]))]

\* The recipient number of the payload.
Number(row) == PyStr(RowGet(row, column_mapping[MOBILE_NO].value))

\* if final_img: params["media"] = {"mediaLink": final_img}
AttachMedia(params, final_img) ==
    IF final_img # <<>>
    THEN DictSet(params, MEDIA, MediaObject(final_img))
    ELSE params

\* The JSON body POSTed for a row.  payload holds the params dict itself,
\* so the media entry added after payload is built is part of what is sent.
Payload(row) ==
    [userDetails |-> [number |-> Number(row)],
     notification |->
        [type |-> "whatsapp",
         sender |-> SENDER,
         templateId |-> template_obj.template_id,
         params |-> AttachMedia(BuildParams(row), FinalImg(row))]]

\* ------------------------------------------------------------------------
\* send_message: the answer of the API and its classification
\* ------------------------------------------------------------------------

SENT == <<"S", "e", "n", "t">>
FAILED == <<"F", "a", "i", "l", "e", "d">>
ERROR == <<"E", "r", "r", "o", "r">>
MESSAGE == <<"m", "e", "s", "s", "a", "g", "e">>

\* str(e) of the exceptions of the model: a transport failure of
\* requests.post, and response.json() on a body that is no JSON.
EXC_CONNECTION == <<"c", "o", "n", "n">>
EXC_JSON == <<"j", "s", "o", "n">>

\* The HTTP status codes the API answers with in the model.
StatusCodes == {200, 202, 500}

\* The message text the API reports in the model.
API_MESSAGE == <<"o", "k">>

\* The bodies of a response: no JSON at all (an HTML error page, an empty
\* body), a JSON object without and with a "message" member.
Bodies ==
    {[kind |-> "text"],
     [kind |-> "object", json |-> EmptyDict],
     [kind |-> "object", json |-> DictSet(EmptyDict, MESSAGE, API_MESSAGE)]}

Responses == [status_code : StatusCodes, body : Bodies]

\* The tuple send_message returns.
Result(i, stat, msg) == [i |-> i, stat |-> stat, msg |-> msg]

\* A success test that knows 200 only.
IsSuccess_Only200(code) == code = 200

\* response.status_code in [200, 202]
IsSuccess(code) == code \in {200, 202}

\* Lines 253-259: response.json() is taken first, then the status code
\* decides; an exception of either step is the except branch.
Classify(i, response) ==
    IF response.body.kind = "text" THEN Result(i, ERROR, EXC_JSON)
    ELSE IF IsSuccess(response.status_code)
    THEN Result(i, SENT, DictGet(response.body.json, MESSAGE, SUCCESS))
    ELSE Result(i, FAILED,
                DictGet(response.body.json, MESSAGE, HttpText(response.status_code)))

\* A future that holds an exception instead of a tuple: future.result()
\* raises it in the merge loop.
RAISED == <<"r", "a", "i", "s", "e", "d">>

\* A send_message without the except branch: the exception stays in the
\* future.
Caught_Uncaught(i, text) == Result(i, RAISED, text)

\* except Exception as e: return (i, "Error", str(e))
Caught(i, text) == Result(i, ERROR, text)

\* What task i ends with for what its POST met: the whole body of
\* send_message is inside the try, so every exception becomes a tuple.
Outcome(i, met) ==
    IF met.kind = "http" THEN Classify(i, met.r) ELSE Caught(i, met.text)

\* What a POST can meet: an answer of the API, a transport failure raised
\* by requests.post, or no answer at all.
Answer(response) == [kind |-> "http", r |-> response]
TRANSPORT_FAILURE == [kind |-> "raised", text |-> EXC_CONNECTION]
SILENCE == [kind |-> "silent"]

Behaviours == {Answer(response) : response \in Responses} \cup {TRANSPORT_FAILURE, SILENCE}

\* ------------------------------------------------------------------------
\* The template store
\* ------------------------------------------------------------------------

\* An update without the test of the name: every stored template gets the
\* mappings.
UpdateTemplateMapping_EveryTemplate(templates, template_name, mappings) ==
    [k \in DOMAIN templates |-> [templates[k] EXCEPT !.mappings = mappings]]

\* The index of the first template named template_name, 0 when there is none.
RECURSIVE FirstNamed(_, _, _)
FirstNamed(templates, template_name, k) ==
    IF k > Len(templates) THEN 0
    ELSE IF templates[k].template_name = template_name THEN k
    ELSE FirstNamed(templates, template_name, k + 1)

\* update_template_mapping: the content of templates.json afterwards.  The
\* loop returns at the first template of that name; it saves only when the
\* stored mappings differ.
UpdateTemplateMapping(templates, template_name, mappings) ==
    LET k == FirstNamed(templates, template_name, 1)
    IN  IF k = 0 THEN templates
        ELSE IF templates[k].mappings # mappings
        THEN [templates EXCEPT ![k].mappings = mappings]
        ELSE templates

\* ------------------------------------------------------------------------
\* The page before the Send button is pressed
\* ------------------------------------------------------------------------

COL_M == <<"M">>
COL_N == <<"N">>
COL_I == <<"I">>
Columns == {COL_M, COL_N, COL_I}
SampleColumns == <<COL_M, COL_N, COL_I>>

LINK_A == <<"h", "t", "t", "p", ":", "a">>
LINK_PADDED == <<" ", "h", "t", "t", "p", ":", "a", " ">>
LINK_FTP == <<"f", "t", "p", ":", "a">>
LINK_U == <<"h", "t", "t", "p", ":", "u">>
TEXT_X1 == <<"X", "1">>

Row(m, n, img) ==
    [c \in Columns |-> IF c = COL_M THEN m ELSE IF c = COL_N THEN n ELSE img]

\* Row i of the tables of more than one row: a number of its own, and a
\* link in the image column of every second row.
SampleRow(i) ==
    Row(IntCell(90 + i), StrCell(<<"a", Digit[(i % 10) + 1]>>),
        IF i % 2 = 0 THEN StrCell(LINK_A) ELSE NaNCell)

SampleTable(n) == [i \in 0 .. (n - 1) |-> SampleRow(i)]

\* The rows of the one-row tables.
SampleRows ==
    {Row(m, StrCell(<<" ", "A", "l", " ">>), img) :
        m \in {IntCell(91), StrCell(<<"9", "2", " ">>)},
        img \in {StrCell(LINK_A), StrCell(LINK_PADDED), StrCell(LINK_FTP), NaNCell}}

\* "Hi {{n}}", "{{n}}{{media}}" and "{{mobile_no}}".
MSG_NAME == <<"H", "i", " ", "{", "{", "n", "}", "}">>
MSG_MEDIA == <<"{", "{", "n", "}", "}", "{", "{">> \o MEDIA \o <<"}", "}">>
MSG_MOBILE == <<"{", "{">> \o MOBILE_NO \o <<"}", "}">>

Template(message) ==
    [template_name |-> <<"T">>, template_id |-> <<"t", "1">>,
     message |-> message, mappings |-> EmptyDict]

OtherTemplate ==
    [template_name |-> <<"O">>, template_id |-> <<"t", "2">>,
     message |-> <<"B", "y", "e">>, mappings |-> EmptyDict]

\* What map_column returns: a column of the table, or a custom text.
MapChoices ==
    {[type |-> "column", value |-> c] : c \in {COL_M, COL_N}}
    \cup {[type |-> "custom", value |-> v] : v \in {TEXT_X1, COL_M}}

\* Lines 145-159: an entry for mobile_no and for every placeholder of the
\* message; a placeholder named mobile_no takes the mobile entry's place.
ColumnMappings(t) ==
    [{MOBILE_NO} \cup Range(FindAll(t.message)) -> MapChoices]

Setup(table, t, mapping, col, url) ==
    [df |-> table, template_obj |-> t, column_mapping |-> mapping,
     image_col_map |-> col, image_url |-> url]

TemplateMessages == {MSG_NAME, MSG_MEDIA, MSG_MOBILE}

\* One-row tables under every template, mapping and image choice.
OneRowSetups ==
    UNION {
        {Setup([i \in {0} |-> row], Template(msg), mapping, col, url) :
            row \in SampleRows,
            mapping \in ColumnMappings(Template(msg)),
            col \in {<<>>, COL_I},
            url \in {<<>>, LINK_U}} :
        msg \in TemplateMessages}

\* Tables of 0 .. MaxRows rows under "Hi {{n}}", the number and the name
\* read from their columns, the image from the image column.
ManyRowSetups ==
    {Setup(SampleTable(n), Template(MSG_NAME),
           [f \in {MOBILE_NO, <<"n">>} |->
               [type |-> "column", value |-> IF f = MOBILE_NO THEN COL_M ELSE COL_N]],
           COL_I, <<>>) :
        n \in 0 .. MaxRows}

Setups == OneRowSetups \cup ManyRowSetups

\* ------------------------------------------------------------------------
\* The futures of the thread pool
\* ------------------------------------------------------------------------

\* ThreadPoolExecutor(max_workers=10)
MaxWorkers == 10

NoResponse == [kind |-> "none"]
NoResult == Result(-1, <<>>, <<>>)

\* A future: pending (queued), running (inside requests.post), hung (the
\* post never returns), done (send_message has returned), merged (the
\* as_completed loop has taken its result).
Future(pc, response, result) == [pc |-> pc, response |-> response, result |-> result]

Running == {i \in DOMAIN fut : fut[i].pc \in {"running", "hung"}}

\* Whether update_template_mapping reaches save_templates: a template of
\* that name is stored and its mappings differ (lines 34-36).
MappingDiffers(templates, template_name, mappings) ==
    LET k == FirstNamed(templates, template_name, 1)
    IN  k # 0 /\ templates[k].mappings # mappings

\* st.cache_resource for get_templates_cached: empty, or the list that
\* load_templates returned when the function last ran.
NotCached == [loaded |-> FALSE, value |-> <<>>]
Cached(templates) == [loaded |-> TRUE, value |-> templates]

\* f"{{{{{field}}}}}": the placeholder text of a field.
Placeholder(field) == <<"{", "{">> \o field \o <<"}", "}">>

\* str.replace(old, new): every occurrence of old, left to right, without
\* overlap, becomes new.
RECURSIVE Replace(_, _, _)
Replace(s, old, new) ==
    IF Len(s) < Len(old) THEN s
    ELSE IF SubSeq(s, 1, Len(old)) = old
    THEN new \o Replace(SubSeq(s, Len(old) + 1, Len(s)), old, new)
    ELSE <<Head(s)>> \o Replace(Tail(s), old, new)

\* Lines 190-197: the loop over column_mapping.items().  The keys come in
\* the order of their first insertion (the placeholders as re.findall
\* lists them); mobile_no is skipped; every other field replaces its
\* placeholder in the text the fields before it have left.
RECURSIVE ReplaceFields(_, _, _)
ReplaceFields(text, fields, row) ==
    IF fields = <<>> THEN text
    ELSE LET field == Head(fields)
             rest == SelectSeq(Tail(fields), LAMBDA f : f # field)
         IN  IF field = MOBILE_NO THEN ReplaceFields(text, rest, row)
             ELSE ReplaceFields(
                    Replace(text, Placeholder(field),
                            ResolveParam(row, column_mapping[field])),
                    rest, row)

\* A save_templates that leaves the cache as it is.
SaveTemplates_KeepCache(templates, cached) == [file |-> templates, cache |-> cached]

\* save_templates: the list is written to templates.json and the cache,
\* whatever it holds at the call, is cleared.
SaveTemplates(templates, cached) == [file |-> templates, cache |-> NotCached]

NoPreview == [shown |-> FALSE, text |-> <<>>]

\* Lines 186-200: the preview of the message for the first row; df.iloc[0]
\* raises on a table without rows and st.error takes the preview's place.
PreviewMessage ==
    IF 0 \in DOMAIN df
    THEN [shown |-> TRUE,
          text |-> ReplaceFields(template_obj.message,
                                 FindAll(template_obj.message), df[0])]
    ELSE NoPreview

\* The page with table, template and mapping chosen and the preview shown,
\* the Send button not yet pressed: the templates were read through
\* get_templates_cached (line 136), so the cache holds the file's content.
PageShown(s, columns, behaviours, file) ==
    /\ df = s.df
    /\ df_columns = columns
    /\ template_obj = s.template_obj
    /\ column_mapping = s.column_mapping
    /\ image_col_map = s.image_col_map
    /\ image_url = s.image_url
    /\ api = behaviours
    /\ templates_file = file
    /\ cache = Cached(file)
    /\ saves = 0
    /\ preview_message = PreviewMessage
    /\ sent = [i \in DOMAIN s.df |-> <<>>]
    /\ writes = [i \in DOMAIN s.df |-> 0]
    /\ phase = "setup"
    /\ status = <<>>
    /\ response_texts = <<>>
    /\ completed = 0
    /\ submitted = 0
    /\ fut = <<>>
    /\ report = <<>>
    /\ report_columns = <<>>
    /\ highlighted = <<>>

Init ==
    \E s \in Setups :
        PageShown(s, SampleColumns, [i \in DOMAIN s.df |-> Behaviours],
                  <<OtherTemplate, s.template_obj>>)

\* ------------------------------------------------------------------------
\* The Send button handler (main thread)
\* ------------------------------------------------------------------------

\* mapping_to_save of lines 203-205.
MappingToSave ==
    IF image_col_map # <<>>
    THEN DictSet(column_mapping, IMAGE_COLUMN, image_col_map)
    ELSE column_mapping

\* Lines 202-213 and 261-264: the mapping is persisted, the result lists
\* are allocated, the progress starts at 0.  The script run of the click
\* renders the page as it stood, the preview with it.
ClickSend ==
    /\ phase = "setup"
    /\ LET template_name == template_obj.template_name
           store == SaveTemplates(
                        UpdateTemplateMapping(templates_file, template_name, MappingToSave),
                        cache)
           differs == MappingDiffers(templates_file, template_name, MappingToSave)
       IN  /\ templates_file' = IF differs THEN store.file ELSE templates_file
           /\ cache' = IF differs THEN store.cache ELSE cache
           /\ saves' = IF differs THEN saves + 1 ELSE saves
    /\ status' = [i \in Rows |-> <<>>]
    /\ response_texts' = [i \in Rows |-> <<>>]
    /\ completed' = 0
    /\ phase' = "running"
    /\ UNCHANGED <<preview_message, setupVars, submitted, fut, sent, writes,
                   reportVars>>

\* Line 267: executor.submit(send_message, i, row) for the next row of
\* df.iterrows().
Submit ==
    /\ phase = "running"
    /\ submitted < Total
    /\ fut' = DictSet(fut, submitted, Future("pending", NoResponse, NoResult))
    /\ submitted' = submitted + 1
    /\ UNCHANGED <<storeVars, preview_message, setupVars, phase, status, response_texts,
                   completed, sent, writes, reportVars>>

\* A merge that takes the slot one past the tuple's index (a 1-based slip).
MergeIndex_OffByOne(result) == result.i + 1

\* A merge that fills the slots in completion order (results.append).
MergeIndex_CompletionOrder(result) == completed

\* The slot of the result lists a merged tuple is written to.
MergeIndex(result) == result.i

\* A progress count that is set, not added to.
NextCompleted_Assigned(count) == 1

\* completed += 1
NextCompleted(count) == count + 1

\* Lines 268-273: as_completed yields a finished future; its tuple is
\* written to the result lists at the tuple's index.
Merge(i) ==
    /\ phase = "running"
    /\ submitted = Total
    /\ i \in DOMAIN fut
    /\ fut[i].pc = "done"
    /\ LET result == fut[i].result
           k == MergeIndex(result)
       IN  IF result.stat = RAISED
           THEN \* future.result() raises: the handler dies in the loop
                /\ phase' = "aborted"
                /\ UNCHANGED <<status, response_texts, writes, completed>>
           ELSE /\ status' = [status EXCEPT ![k] = result.stat]
                /\ response_texts' = [response_texts EXCEPT ![k] = result.msg]
                /\ writes' = [writes EXCEPT ![k] = @ + 1]
                /\ completed' = NextCompleted(completed)
                /\ phase' = phase
    /\ fut' = [fut EXCEPT ![i].pc = "merged"]
    /\ UNCHANGED <<storeVars, preview_message, setupVars, submitted, sent, reportVars>>

\* The script run is stopped while the handler is in the merge loop: the
\* user stops or reruns the page and the stop is raised in the handler's
\* thread inside the st call of line 273, after a result was merged.  The
\* with block of line 266 is left by the exception; its exit waits for the
\* workers, and nothing takes the queued tasks out of the queue.
StopScript ==
    /\ phase = "running"
    /\ submitted = Total
    /\ completed > 0
    /\ phase' = "stopped"
    /\ UNCHANGED <<storeVars, preview_message, setupVars, status, response_texts,
                   completed, submitted, fut, sent, writes, reportVars>>

STATUS_COLUMN == <<"S", "t", "a", "t", "u", "s">>
RESPONSE_COLUMN == <<"A", "P", "I", " ", "R", "e", "s", "p", "o", "n", "s", "e">>

\* Lines 275-276: df["Status"] = status; df["API Response"] = response_texts.
ReportTable ==
    [i \in Rows |->
        DictSet(DictSet(df[i], STATUS_COLUMN, StrCell(status[i])),
                RESPONSE_COLUMN, StrCell(response_texts[i]))]

\* df.columns after lines 275-276: a label the table has already keeps its
\* place, a new label goes to the end.
ReportColumns ==
    LET with_status ==
            IF STATUS_COLUMN \in Range(df_columns) THEN df_columns
            ELSE Append(df_columns, STATUS_COLUMN)
    IN  IF RESPONSE_COLUMN \in Range(with_status) THEN with_status
        ELSE Append(with_status, RESPONSE_COLUMN)

UPPERCASE ==
    <<"A", "B", "C", "D", "E", "F", "G", "H", "I", "J", "K", "L", "M",
      "N", "O", "P", "Q", "R", "S", "T", "U", "V", "W", "X", "Y", "Z">>
LOWERCASE ==
    <<"a", "b", "c", "d", "e", "f", "g", "h", "i", "j", "k", "l", "m",
      "n", "o", "p", "q", "r", "s", "t", "u", "v", "w", "x", "y", "z">>

\* str.lower()
Lower(s) ==
    [k \in DOMAIN s |->
        IF \E u \in DOMAIN UPPERCASE : UPPERCASE[u] = s[k]
        THEN LOWERCASE[CHOOSE u \in DOMAIN UPPERCASE : UPPERCASE[u] = s[k]]
        ELSE s[k]]

NONE_TEXT == <<"N", "o", "n", "e">>

\* str(cell.value) of a cell of the sheet that df.to_excel wrote and
\* load_workbook read: an empty string and NaN leave an empty cell, whose
\* value is None.
SheetStr(cell) ==
    IF cell.kind = "nan" THEN NONE_TEXT
    ELSE IF PyStr(cell) = <<>> THEN NONE_TEXT
    ELSE PyStr(cell)

\* The sheet column that line 288 reads the status from: D, the fourth.
STATUS_SHEET_COLUMN == 4

\* Lines 287-290 for the sheet row of table row i (to_excel writes no index
\* column, so the labels of df.columns are the sheet columns A, B, C, ...):
\* the row is filled when the text of its cell in column D, lowered, is
\* failed or error.  A sheet with fewer columns has no value there.
Highlighted(i) ==
    LET text == IF Len(ReportColumns) >= STATUS_SHEET_COLUMN
                THEN SheetStr(ReportTable[i][ReportColumns[STATUS_SHEET_COLUMN]])
                ELSE NONE_TEXT
    IN  Lower(text) \in {Lower(FAILED), Lower(ERROR)}

\* A handler that saves once more when the run is over: the mapping with
\* the status column added to it.
Finish_SavesAgain ==
    /\ phase = "running"
    /\ submitted = Total
    /\ \A i \in DOMAIN fut : fut[i].pc = "merged"
    /\ report' = ReportTable
    /\ report_columns' = ReportColumns
    /\ highlighted' = [i \in Rows |-> Highlighted(i)]
    /\ phase' = "done"
    /\ templates_file' =
          UpdateTemplateMapping(
              templates_file, template_obj.template_name,
              DictSet(MappingToSave, STATUS_COLUMN,
                      [type |-> "column", value |-> STATUS_COLUMN]))
    /\ cache' = NotCached
    /\ saves' = saves + 1
    /\ UNCHANGED <<preview_message, setupVars, status, response_texts,
                   completed, submitted, fut, sent, writes>>

\* The with block ends when every future is finished and merged; the
\* report columns are set and the sheet is written and highlighted.
Finish ==
    /\ phase = "running"
    /\ submitted = Total
    /\ \A i \in DOMAIN fut : fut[i].pc = "merged"
    /\ report' = ReportTable
    /\ report_columns' = ReportColumns
    /\ highlighted' = [i \in Rows |-> Highlighted(i)]
    /\ phase' = "done"
    /\ UNCHANGED <<storeVars, preview_message, setupVars, status, response_texts,
                   completed, submitted, fut, sent, writes>>

\* ------------------------------------------------------------------------
\* send_message (worker threads) and the API
\* ------------------------------------------------------------------------

\* A pool that runs a task again when it did not end as Sent.
Startable_Retry(f) ==
    f.pc = "pending" \/ (f.pc = "done" /\ f.result.stat # SENT)

\* A future is run once: a worker takes it from the queue while it is pending.
Startable(f) == f.pc = "pending"

\* A pool without a bound on its threads: every queued task is run at once.
WorkerFree_Unbounded == TRUE

\* ThreadPoolExecutor(max_workers=10): a queued task waits until one of the
\* ten workers is not inside a task.
WorkerFree == Cardinality(Running) < MaxWorkers

\* The work queue of the executor is first in, first out: the task a
\* worker takes is the one submitted before every other queued task.
HeadOfQueue(i) == \A j \in DOMAIN fut : j < i => ~Startable(fut[j])

\* A worker takes a queued task: lines 216-252 up to the POST of the payload.
Start(i) ==
    /\ i \in DOMAIN fut
    /\ Startable(fut[i])
    /\ HeadOfQueue(i)
    /\ WorkerFree
    /\ sent' = [sent EXCEPT ![i] = Append(@, Payload(df[i]))]
    /\ fut' = [fut EXCEPT ![i].pc = "running"]
    /\ UNCHANGED <<storeVars, preview_message, setupVars, phase, status, response_texts,
                   completed, submitted, writes, reportVars>>

\* The API answers; lines 253-257 classify the answer and the task returns.
Respond(i) ==
    /\ i \in DOMAIN fut
    /\ fut[i].pc = "running"
    /\ \E met \in api[i] :
        /\ met.kind = "http"
        /\ fut' = [fut EXCEPT ![i] = Future("done", met, Outcome(i, met))]
    /\ UNCHANGED <<storeVars, preview_message, setupVars, phase, status, response_texts,
                   completed, submitted, sent, writes, reportVars>>

\* requests.post raises (connection failure); line 259 returns the Error
\* tuple.
TransportFail(i) ==
    /\ i \in DOMAIN fut
    /\ fut[i].pc = "running"
    /\ TRANSPORT_FAILURE \in api[i]
    /\ fut' = [fut EXCEPT ![i] =
                  Future("done", TRANSPORT_FAILURE, Outcome(i, TRANSPORT_FAILURE))]
    /\ UNCHANGED <<storeVars, preview_message, setupVars, phase, status, response_texts,
                   completed, submitted, sent, writes, reportVars>>

\* The API never answers: requests.post is called without a timeout, so
\* the call, and with it the worker, blocks for good.
Hang(i) ==
    /\ i \in DOMAIN fut
    /\ fut[i].pc = "running"
    /\ SILENCE \in api[i]
    /\ fut' = [fut EXCEPT ![i].pc = "hung"]
    /\ UNCHANGED <<storeVars, preview_message, setupVars, phase, status, response_texts,
                   completed, submitted, sent, writes, reportVars>>

Next ==
    \/ ClickSend
    \/ Submit
    \/ Finish
    \/ StopScript
    \/ \E i \in Rows : Merge(i)
    \/ \E i \in Rows : Start(i)
    \/ \E i \in Rows : Respond(i)
    \/ \E i \in Rows : TransportFail(i)
    \/ \E i \in Rows : Hang(i)

Spec == Init /\ [][Next]_vars

\* The threads are scheduled and the API may answer: no enabled step is
\* put off for ever.
FairSpec == Spec /\ WF_vars(Next)

\* A batch of one row more than the pool has workers.
PoolRows == MaxWorkers + 1

OK_RESPONSE ==
    [status_code |-> 200,
     body |-> [kind |-> "object", json |-> DictSet(EmptyDict, MESSAGE, API_MESSAGE)]]

\* An outage of the API at the start of the batch: the requests of the
\* first half of a pool's worth of rows get no answer, every later request
\* is answered with 200.
PoolApi ==
    [i \in 0 .. (PoolRows - 1) |->
        IF i < MaxWorkers \div 2 THEN {SILENCE} ELSE {Answer(OK_RESPONSE)}]

\* The table of n sample rows under "Hi {{n}}" and the API as given.
SampleBatch(n, behaviours) ==
    PageShown(Setup(SampleTable(n), Template(MSG_NAME),
                    [f \in {MOBILE_NO, <<"n">>} |->
                        [type |-> "column",
                         value |-> IF f = MOBILE_NO THEN COL_M ELSE COL_N]],
                    COL_I, <<>>),
              SampleColumns, behaviours, <<OtherTemplate, Template(MSG_NAME)>>)

\* The batch larger than the pool under the outage, or a batch of one row
\* under everything the API can do.
PoolInit ==
    \/ SampleBatch(PoolRows, PoolApi)
    \/ SampleBatch(1, [i \in {0} |-> Behaviours])

PoolSpec == PoolInit /\ [][Next]_vars

\* Tables of other shapes than the sample table: two, three and four
\* columns, and tables that already have a column named Status or
\* API Response.
COL_X == <<"X">>
OLD_TEXT == <<"o", "l", "d">>

WideColumns ==
    {<<COL_M, COL_N>>,
     SampleColumns,
     <<COL_M, COL_N, COL_I, COL_X>>,
     <<COL_M, COL_N, COL_I, STATUS_COLUMN>>,
     <<COL_M, COL_N, RESPONSE_COLUMN>>}

\* Row i of a table with the given labels.  The first row's cell of
\* column X reads "Failed".
WideRow(columns, i) ==
    [c \in Range(columns) |->
        IF c = COL_M THEN IntCell(90 + i)
        ELSE IF c = COL_N THEN StrCell(<<"a", Digit[(i % 10) + 1]>>)
        ELSE IF c = COL_X THEN StrCell(IF i = 0 THEN FAILED ELSE SENT)
        ELSE IF c \in {STATUS_COLUMN, RESPONSE_COLUMN} THEN StrCell(OLD_TEXT)
        ELSE NaNCell]

WideTable(columns, n) == [i \in 0 .. (n - 1) |-> WideRow(columns, i)]

\* "{{a}}{{b}}" and the custom texts "{{a}}" and "{{b}}".
FIELD_A == <<"a">>
FIELD_B == <<"b">>
MSG_TWO == Placeholder(FIELD_A) \o Placeholder(FIELD_B)

PreviewChoices ==
    {[type |-> "column", value |-> COL_N],
     [type |-> "custom", value |-> TEXT_X1],
     [type |-> "custom", value |-> Placeholder(FIELD_A)],
     [type |-> "custom", value |-> Placeholder(FIELD_B)]}

MobileFromColumn == [type |-> "column", value |-> COL_M]

\* The tables of every shape with one and two rows under "Hi {{n}}", and
\* the one-row sample table under "{{a}}{{b}}" with every choice for a and b.
WideSetups ==
    {[columns |-> columns,
      setup |-> Setup(WideTable(columns, n), Template(MSG_NAME),
                      [f \in {MOBILE_NO, <<"n">>} |->
                          IF f = MOBILE_NO THEN MobileFromColumn
                          ELSE [type |-> "column", value |-> COL_N]],
                      <<>>, <<>>)] :
        columns \in WideColumns, n \in 1 .. 2}
    \cup
    {[columns |-> SampleColumns,
      setup |-> Setup(SampleTable(1), Template(MSG_TWO),
                      [f \in {MOBILE_NO, FIELD_A, FIELD_B} |->
                          IF f = MOBILE_NO THEN MobileFromColumn
                          ELSE IF f = FIELD_A THEN for_a ELSE for_b],
                      <<>>, <<>>)] :
        for_a \in PreviewChoices, for_b \in PreviewChoices}

WideInit ==
    \E s \in WideSetups :
        PageShown(s.setup, s.columns, [i \in DOMAIN s.setup.df |-> Behaviours],
                  <<OtherTemplate, s.setup.template_obj>>)

WideSpec == WideInit /\ [][Next]_vars

\* ------------------------------------------------------------------------
\* The Manage Templates tab
\* ------------------------------------------------------------------------

\* How many templates the store holds at most.
MaxTemplates == 2

\* How many times the Manage Templates tab saves the list in a run of the
\* model.
MaxSaves == 3

NAME_T == <<"T">>
NAME_O == <<"O">>
BYE == <<"B", "y", "e">>

\* The mapping of "Hi {{n}}" that reads the number and the name from their
\* columns, and the template T with that mapping saved by an earlier run.
SAVED_MAPPING ==
    [f \in {MOBILE_NO, <<"n">>} |->
        IF f = MOBILE_NO THEN MobileFromColumn ELSE [type |-> "column", value |-> COL_N]]

SavedTemplate == [Template(MSG_NAME) EXCEPT !.mappings = SAVED_MAPPING]

\* No template is selected while the page has no table.
NoTemplate ==
    [template_name |-> <<>>, template_id |-> <<>>, message |-> <<>>,
     mappings |-> EmptyDict]

\* get_templates_cached(): the cached list, or what load_templates reads.
GetTemplatesCached == IF cache.loaded THEN cache.value ELSE templates_file

\* The page after its first run without a table: templates.json was read
\* through get_templates_cached; it is missing or holds what earlier use
\* of the program has left.
StoreInit ==
    /\ templates_file \in {<<>>, <<SavedTemplate>>}
    /\ cache = Cached(templates_file)
    /\ saves = 0
    /\ phase = "manage"
    /\ df = <<>>
    /\ df_columns = <<>>
    /\ template_obj = NoTemplate
    /\ column_mapping = EmptyDict
    /\ image_col_map = <<>>
    /\ image_url = <<>>
    /\ api = <<>>
    /\ preview_message = NoPreview
    /\ sent = <<>>
    /\ writes = <<>>
    /\ status = <<>>
    /\ response_texts = <<>>
    /\ completed = 0
    /\ submitted = 0
    /\ fut = <<>>
    /\ report = <<>>
    /\ report_columns = <<>>
    /\ highlighted = <<>>

runVars ==
    <<preview_message, setupVars, phase, status, response_texts, completed,
      submitted, fut, sent, writes, reportVars>>

\* Lines 82-96: the form is submitted.  With a name the template is
\* appended to the list get_templates_cached returned, which is the cached
\* list itself, and the list is saved; without one nothing is changed.
AddTemplate ==
    /\ phase = "manage"
    /\ \E t_name \in {NAME_T, NAME_O, <<>>} :
        LET templates == GetTemplatesCached
            added == Append(templates,
                            [template_name |-> t_name, template_id |-> <<"t", "1">>,
                             message |-> MSG_NAME, mappings |-> EmptyDict])
            store == SaveTemplates(added, Cached(added))
        IN  IF t_name # <<>>
            THEN /\ Len(templates) < MaxTemplates
                 /\ saves < MaxSaves
                 /\ templates_file' = store.file
                 /\ cache' = store.cache
                 /\ saves' = saves + 1
            ELSE /\ cache' = Cached(templates)
                 /\ UNCHANGED <<templates_file, saves>>
    /\ UNCHANGED runVars

\* Lines 107-115: the Update button of template idx; the entry of the
\* cached list is replaced, keeping its mappings, and the list is saved.
UpdateTemplate(idx) ==
    /\ phase = "manage"
    /\ idx \in DOMAIN GetTemplatesCached
    /\ saves < MaxSaves
    /\ \E new_name \in {NAME_T, NAME_O}, new_msg \in {MSG_NAME, BYE} :
        LET templates == GetTemplatesCached
            t == templates[idx]
            updated == [templates EXCEPT ![idx] =
                           [template_name |-> new_name, template_id |-> t.template_id,
                            message |-> new_msg, mappings |-> t.mappings]]
            store == SaveTemplates(updated, Cached(updated))
        IN  /\ templates_file' = store.file
            /\ cache' = store.cache
            /\ saves' = saves + 1
    /\ UNCHANGED runVars

\* Lines 118-122: the Delete button of template idx; the entry is popped
\* from the cached list, the list is saved, and st.experimental_rerun runs
\* the script again, whose line 79 reads the templates anew.
DeleteTemplate(idx) ==
    /\ phase = "manage"
    /\ idx \in DOMAIN GetTemplatesCached
    /\ saves < MaxSaves
    /\ LET templates == GetTemplatesCached
           popped == [k \in 1 .. (Len(templates) - 1) |->
                         IF k < idx THEN templates[k] ELSE templates[k + 1]]
           store == SaveTemplates(popped, Cached(popped))
       IN  /\ templates_file' = store.file
           /\ cache' = IF store.cache.loaded THEN store.cache ELSE Cached(store.file)
           /\ saves' = saves + 1
    /\ UNCHANGED runVars

\* Lines 129-200: a table is uploaded, a template is selected by its name
\* (the first of that name is taken) and its fields are mapped.  The
\* script stops at line 138 when there is no template.
SelectTemplate ==
    /\ phase = "manage"
    /\ GetTemplatesCached # <<>>
    /\ \E k \in DOMAIN GetTemplatesCached, for_field \in {"column", "custom"} :
        LET templates == GetTemplatesCached
            selected == templates[FirstNamed(templates, templates[k].template_name, 1)]
        IN  /\ cache' = Cached(templates)
            /\ template_obj' = selected
            /\ column_mapping' =
                    [f \in {MOBILE_NO} \cup Range(FindAll(selected.message)) |->
                        IF f = MOBILE_NO THEN MobileFromColumn
                        ELSE IF for_field = "column"
                        THEN [type |-> "column", value |-> COL_N]
                        ELSE [type |-> "custom", value |-> TEXT_X1]]
    /\ df' = SampleTable(1)
    /\ df_columns' = SampleColumns
    /\ api' = [i \in {0} |-> Behaviours]
    /\ sent' = [i \in {0} |-> <<>>]
    /\ writes' = [i \in {0} |-> 0]
    /\ preview_message' = PreviewMessage'
    /\ phase' = "setup"
    /\ UNCHANGED <<templates_file, saves, image_col_map, image_url, status,
                   response_texts, completed, submitted, fut, reportVars>>

StoreNext ==
    \/ AddTemplate
    \/ \E idx \in 1 .. MaxTemplates : UpdateTemplate(idx)
    \/ \E idx \in 1 .. MaxTemplates : DeleteTemplate(idx)
    \/ SelectTemplate
    \/ Next

StoreSpec == StoreInit /\ [][StoreNext]_vars

\* ------------------------------------------------------------------------
\* Properties
\* ------------------------------------------------------------------------

Terminal(i) == i \in DOMAIN fut /\ fut[i].pc \in {"done", "merged"}
Merged(i) == i \in DOMAIN fut /\ fut[i].pc = "merged"
Started(i) == i \in DOMAIN fut /\ fut[i].pc # "pending"

\* C1: no result slot is ever written twice, and when dispatch has finished
\* the result lists have exactly the indices 0 .. N-1 of the N rows, each
\* written exactly once with a status.
C1_EveryIndexOnce ==
    /\ \A i \in Rows : writes[i] <= 1
    /\ completed <= Total
    /\ phase = "done" =>
        /\ DOMAIN status = 0 .. (Total - 1)
        /\ DOMAIN response_texts = 0 .. (Total - 1)
        /\ completed = Total
        /\ \A i \in 0 .. (Total - 1) :
            writes[i] = 1 /\ status[i] \in {SENT, FAILED, ERROR}

\* A finished batch of at least three rows.
C1_Witness == phase = "done" /\ Total >= 3 /\ \A i \in Rows : writes[i] = 1

\* C2: whatever the order of completion, the slot i of the merged result
\* holds the outcome of the task that was built from row i and answered
\* for row i; the finished report has row i's cells and that outcome at
\* position i.
C2_InputOrder ==
    /\ \A i \in Rows :
        Merged(i) =>
            /\ sent[i] = <<Payload(df[i])>>
            /\ status[i] = fut[i].result.stat
            /\ response_texts[i] = fut[i].result.msg
    /\ phase = "done" =>
        \A i \in Rows :
            /\ Merged(i)
            /\ \A c \in DOMAIN df[i] : report[i][c] = df[i][c]
            /\ report[i][STATUS_COLUMN] = StrCell(fut[i].result.stat)
            /\ report[i][RESPONSE_COLUMN] = StrCell(fut[i].result.msg)

\* The last row is merged, with a result of its own, while the first row
\* has not finished: completion order differs from input order.
C2_Witness ==
    /\ Total >= 3
    /\ Merged(2) /\ status[2] = FAILED
    /\ 0 \in DOMAIN fut /\ fut[0].pc \in {"pending", "running"}

\* What the API did to the POST of row i counts as a failure of that row.
FailedSend(i) ==
    /\ Terminal(i)
    /\ \/ fut[i].response.kind = "raised"
       \/ fut[i].response.kind = "http" /\ fut[i].response.r.status_code \notin {200, 202}

\* C3: a rejected or raising send never aborts the batch; it ends as that
\* row's Failed or Error result, and every row's merged status and message
\* are those its own answer gives, whatever happened to the other rows.  A
\* 3-row batch whose second send raises and whose others succeed ends as
\* Sent, Error, Sent.
C3_Isolation ==
    /\ phase # "aborted"
    /\ \A i \in Rows :
        /\ FailedSend(i) => fut[i].result.stat \in {FAILED, ERROR}
        /\ Merged(i) =>
            /\ status[i] = Outcome(i, fut[i].response).stat
            /\ response_texts[i] = Outcome(i, fut[i].response).msg
    /\ (/\ phase = "done" /\ Total = 3
        /\ fut[1].response.kind = "raised"
        /\ \A i \in {0, 2} :
            /\ fut[i].response.kind = "http"
            /\ fut[i].response.r.status_code = 200
            /\ fut[i].response.r.body.kind = "object")
       => status = [i \in 0 .. 2 |-> IF i = 1 THEN ERROR ELSE SENT]

\* The 3-row batch of the claim, finished.
C3_Witness ==
    /\ phase = "done" /\ Total = 3
    /\ fut[1].response.kind = "raised"
    /\ fut[0].response.kind = "http" /\ fut[0].response.r.status_code = 200
    /\ fut[0].response.r.body.kind = "object"
    /\ fut[2].response.kind = "http" /\ fut[2].response.r.status_code = 200
    /\ fut[2].response.r.body.kind = "object"
    /\ status = [i \in 0 .. 2 |-> IF i = 1 THEN ERROR ELSE SENT]

\* The answer task i has received is an HTTP response.
Answered(i) == Terminal(i) /\ fut[i].response.kind = "http"

\* The response carries an API message.
HasMessage(response) ==
    response.body.kind = "object" /\ MESSAGE \in DOMAIN response.body.json

\* Status and message as the claim gives them for an HTTP response.
ByStatusCode(i, response) ==
    /\ fut[i].result.stat =
        (IF response.status_code \in {200, 202} THEN SENT ELSE FAILED)
    /\ fut[i].result.msg =
        (IF HasMessage(response) THEN response.body.json[MESSAGE]
         ELSE IF response.status_code \in {200, 202} THEN SUCCESS
         ELSE <<"H", "T", "T", "P", " ">> \o IntToStr(response.status_code))

\* C4 as claimed: every send that receives an HTTP response ends Sent on 200
\* or 202 and Failed on any other status, with the API's message or the
\* default text.
C4_Original ==
    \A i \in Rows : Answered(i) => ByStatusCode(i, fut[i].response.r)

\* C4 as amended: that holds of every HTTP response whose body is a JSON
\* object; a response whose body is no JSON ends as Error with the text of
\* the exception, whatever its status code.  A 500 without a message gives
\* "HTTP 500".
C4_ClassifyJson ==
    \A i \in Rows :
        Answered(i) =>
            LET response == fut[i].response.r
            IN  /\ response.body.kind = "object" => ByStatusCode(i, response)
                /\ response.body.kind = "text" =>
                    fut[i].result.stat = ERROR /\ fut[i].result.msg = EXC_JSON
                /\ (/\ response.status_code = 500
                    /\ response.body.kind = "object"
                    /\ ~HasMessage(response))
                   => fut[i].result.msg = <<"H", "T", "T", "P", " ", "5", "0", "0">>

\* A 202 without a message has ended as Sent, "Success".
C4_Witness ==
    \E i \in Rows :
        /\ Answered(i)
        /\ fut[i].response.r.status_code = 202
        /\ fut[i].response.r.body.kind = "object"
        /\ ~HasMessage(fut[i].response.r)
        /\ fut[i].result.stat = SENT /\ fut[i].result.msg = SUCCESS

\* The mapping the page has built has an entry for mobile_no and for every
\* placeholder of the selected template (lines 152-159 build it so).
MappingComplete ==
    {MOBILE_NO} \cup Range(FindAll(template_obj.message)) \subseteq DOMAIN column_mapping

\* C6: a field mapped to a custom text resolves to that text for every row:
\* the recipient number when the field is mobile_no, the parameter of the
\* field otherwise.
C6_LiteralResolves ==
    \A i \in Rows :
        Started(i) =>
            \A field \in DOMAIN column_mapping :
                column_mapping[field].type = "custom" =>
                    IF field = MOBILE_NO
                    THEN sent[i][1].userDetails.number = column_mapping[field].value
                    ELSE BuildParams(df[i])[field] = JsonString(column_mapping[field].value)

\* The media link of a payload, "" when its params carry no media object.
MediaLinkOf(payload) ==
    LET params == payload.notification.params
    IN  IF MEDIA \in DOMAIN params /\ params[MEDIA].kind = "object"
        THEN params[MEDIA].mediaLink
        ELSE <<>>

\* The text of the row's cell in the selected image column.
ImageCellText(row) == PyStr(RowGet(row, image_col_map))

\* C7 as claimed: the uploaded image if there is one; else the row's value
\* in the image column if it begins with the scheme; else no media.
C7_Original ==
    \A i \in Rows :
        Started(i) =>
            MediaLinkOf(sent[i][1]) =
                (IF image_url # <<>> THEN image_url
                 ELSE IF image_col_map # <<>> /\ StartsWith(ImageCellText(df[i]), HTTP_PREFIX)
                 THEN ImageCellText(df[i])
                 ELSE <<>>)

\* C7 as amended: the row's value counts with the surrounding blanks
\* stripped: it is used, stripped, when the stripped text begins with
\* "http".
C7_ImagePriority ==
    \A i \in Rows :
        Started(i) =>
            MediaLinkOf(sent[i][1]) =
                (IF image_url # <<>> THEN image_url
                 ELSE IF /\ image_col_map # <<>>
                         /\ StartsWith(Strip(ImageCellText(df[i])), HTTP_PREFIX)
                 THEN Strip(ImageCellText(df[i]))
                 ELSE <<>>)

\* An uploaded image has overridden a link of the row's image column.
C7_Witness ==
    \E i \in Rows :
        /\ Started(i)
        /\ image_url = LINK_U /\ image_col_map = COL_I
        /\ df[i][COL_I] = StrCell(LINK_A)
        /\ MediaLinkOf(sent[i][1]) = LINK_U

\* The mapped fields that become parameters.
ParamFields == (DOMAIN column_mapping) \ {MOBILE_NO}

\* C8 as claimed: the keys of params are exactly the mapped fields other
\* than mobile_no, each bound to its resolved string, and a non-empty image
\* is carried as notification.media.mediaLink.
C8_Original ==
    \A i \in Rows :
        Started(i) =>
            LET notification == sent[i][1].notification
                params == notification.params
            IN  /\ DOMAIN params = ParamFields
                /\ \A field \in ParamFields :
                    params[field] = JsonString(ResolveParam(df[i], column_mapping[field]))
                /\ IF FinalImg(df[i]) # <<>>
                   THEN /\ "media" \in DOMAIN notification
                        /\ notification.media = [mediaLink |-> FinalImg(df[i])]
                   ELSE "media" \notin DOMAIN notification

\* C8 as amended: the keys of params are the mapped fields other than
\* mobile_no, each bound to its resolved string, and with a non-empty image
\* also the key media, bound to the media object (in the place of a mapped
\* field of that name); notification itself has no media member.
C8_ParamsAndMedia ==
    \A i \in Rows :
        Started(i) =>
            LET notification == sent[i][1].notification
                params == notification.params
                img == FinalImg(df[i])
            IN  /\ DOMAIN notification = {"type", "sender", "templateId", "params"}
                /\ DOMAIN params = ParamFields \cup (IF img # <<>> THEN {MEDIA} ELSE {})
                /\ \A field \in ParamFields :
                    (img = <<>> \/ field # MEDIA) =>
                        params[field] = JsonString(ResolveParam(df[i], column_mapping[field]))
                /\ img # <<>> => params[MEDIA] = MediaObject(img)

\* A payload with an image under a template that has a placeholder named
\* media.
C8_Witness ==
    \E i \in Rows :
        /\ Started(i)
        /\ MEDIA \in ParamFields /\ <<"n">> \in ParamFields
        /\ FinalImg(df[i]) = LINK_A
        /\ sent[i][1].notification.params[MEDIA] = MediaObject(LINK_A)
        /\ sent[i][1].notification.params[<<"n">>] = JsonString(TEXT_X1)

\* C9: every submitted task eventually reaches a terminal state.
C9_EveryTaskTerminates ==
    \A i \in 0 .. (MaxRows - 1) : (i \in DOMAIN fut) ~> Terminal(i)

\* The state of task i in the words of the claim.
TaskState(i) ==
    IF i \notin DOMAIN fut \/ fut[i].pc = "pending" THEN "Pending"
    ELSE IF fut[i].pc \in {"running", "hung"} THEN "Sending"
    ELSE IF fut[i].result.stat = SENT THEN "Sent"
    ELSE IF fut[i].result.stat = FAILED THEN "Failed"
    ELSE "Error"

TerminalStates == {"Sent", "Failed", "Error"}

\* C10: a task goes Pending -> Sending -> Sent, Failed or Error; it has
\* made no call while Pending and exactly one from Sending on; its terminal
\* state and result never change, its row is never sent again, and a
\* written result slot is never written again.
C10_TaskLifecycle ==
    /\ [](\A i \in Rows :
            Len(sent[i]) = (IF TaskState(i) = "Pending" THEN 0 ELSE 1))
    /\ [][\A i \in Rows :
            /\ TaskState(i) = "Pending" => TaskState(i)' \in {"Pending", "Sending"}
            /\ TaskState(i) = "Sending" => TaskState(i)' \in {"Sending"} \cup TerminalStates
            /\ TaskState(i) \in TerminalStates =>
                TaskState(i)' = TaskState(i) /\ fut'[i].result = fut[i].result
            /\ Len(sent[i]) = 1 => sent'[i] = sent[i]
            /\ (i \in DOMAIN status /\ status[i] # <<>>) =>
                status'[i] = status[i] /\ response_texts'[i] = response_texts[i]
         ]_vars

\* A row that was rejected has been merged as Failed after its one call,
\* and the batch is finished.
C10_Witness ==
    \E i \in Rows :
        /\ phase = "done"
        /\ TaskState(i) = "Failed" /\ status[i] = FAILED
        /\ Len(sent[i]) = 1


\* C11: in every reachable state, for a batch of any size, the number of
\* tasks inside the API call (running, or blocked in a call that is never
\* answered) is at most the bound of the worker pool.
C11_PoolBound == Cardinality(Running) <= MaxWorkers

\* The bound has bound: the batch is larger than the pool, every task has
\* left the queue, one has ended and every worker is inside a call, so the
\* last task was started by the worker the ended one gave back.
C11_Witness ==
    /\ Total > MaxWorkers
    /\ Cardinality(Running) = MaxWorkers
    /\ \A i \in Rows : Started(i)
    /\ \E i \in Rows : Terminal(i)

\* C12: once the batch is aborted while it runs, no task that had not
\* started its send at that moment ever sends: from then on no request
\* leaves the program, and the tasks in flight only run to their end.
C12_NoSendAfterAbort == [][phase = "stopped" => sent' = sent]_vars

\* C13: for every input table, whatever the number and content of its
\* columns, a row of the report is highlighted exactly when its status is
\* Failed or Error; the statuses Sent, Failed, Error highlight the second
\* and the third row only.
C13_HighlightByStatus ==
    phase = "done" =>
        /\ DOMAIN highlighted = Rows
        /\ \A i \in Rows : highlighted[i] <=> status[i] \in {FAILED, ERROR}
        /\ (Total = 3 /\ status[0] = SENT /\ status[1] = FAILED /\ status[2] = ERROR)
              => (~highlighted[0] /\ highlighted[1] /\ highlighted[2])

\* C14: the report has one row per row of the table, in the table's
\* order, with every original column and its original values, followed by
\* the columns Status and API Response; also for a table that already has
\* a column of one of those names.
C14_OriginalColumnsKept ==
    phase = "done" =>
        /\ DOMAIN report = Rows
        /\ Len(report_columns) = Len(df_columns) + 2
        /\ SubSeq(report_columns, 1, Len(df_columns)) = df_columns
        /\ SubSeq(report_columns, Len(df_columns) + 1, Len(df_columns) + 2)
              = <<STATUS_COLUMN, RESPONSE_COLUMN>>
        /\ \A i \in Rows : \A k \in DOMAIN df_columns :
              report[i][df_columns[k]] = df[i][df_columns[k]]

\* The render of the claim: one pass from left to right over the message;
\* where the placeholder of a mapped field other than mobile_no begins, the
\* field's resolved value is put and the pass goes on behind the
\* placeholder; every other character is copied.
RECURSIVE SinglePass(_, _)
SinglePass(text, row) ==
    IF text = <<>> THEN <<>>
    ELSE LET hit == {f \in DOMAIN column_mapping \ {MOBILE_NO} :
                        StartsWith(text, Placeholder(f))}
         IN  IF hit # {}
             THEN LET f == CHOOSE g \in hit : TRUE
                  IN  ResolveParam(row, column_mapping[f])
                        \o SinglePass(SubSeq(text, Len(Placeholder(f)) + 1, Len(text)), row)
             ELSE <<Head(text)>> \o SinglePass(Tail(text), row)

\* C15: the preview is the single-pass render of the message: every
\* placeholder of a mapped field is replaced by the field's value, other
\* placeholders stay, and text put in by a substitution is not substituted
\* again, so the order of the fields does not matter; "Hi {{n}}" with the
\* name " Al " in the mapped column reads "Hi Al".
C15_SinglePassRender ==
    preview_message.shown =>
        /\ preview_message.text = SinglePass(template_obj.message, df[0])
        /\ (/\ template_obj.message = MSG_NAME
            /\ column_mapping[<<"n">>] = [type |-> "column", value |-> COL_N]
            /\ df[0][COL_N] = StrCell(<<" ", "A", "l", " ">>))
              => preview_message.text = <<"H", "i", " ", "A", "l">>

\* C16: the report is built and shown only when every task of the batch
\* has ended and been merged; the progress count never goes down, is
\* always the number of result slots written, and is the number of rows
\* exactly when every row's result is merged.
C16_ProgressAndExposure ==
    /\ [](/\ (phase = "done" \/ report_columns # <<>>) =>
               (submitted = Total /\ \A i \in Rows : Merged(i))
          /\ completed = Cardinality({i \in Rows : writes[i] > 0})
          /\ completed = Total <=> \A i \in Rows : Merged(i))
    /\ [][completed' >= completed]_vars

\* Two of three results are merged while the third task is inside its
\* call: the count is 2 and no report exists.
C16_Witness ==
    /\ phase = "running" /\ Total = 3 /\ completed = 2
    /\ \E i \in Rows : i \in DOMAIN fut /\ fut[i].pc = "running"
    /\ report_columns = <<>>

\* The text a lookup of the label name in the row has to give: the cell's
\* text, the empty string when the row has no such label.
LookedUp(row, name) == IF name \in DOMAIN row THEN PyStr(row[name]) ELSE <<>>

\* C17: resolving a mapping by column name never raises: a name the row
\* does not have resolves to the empty string, every started task has
\* built and posted its payload with a string for the number and for every
\* field read from a column, and resolving changes neither the table nor
\* the mapping.
C17_LookupNeverRaises ==
    /\ [](\A i \in Rows :
            Started(i) =>
                /\ Len(sent[i]) = 1
                /\ sent[i][1].userDetails.number
                      = LookedUp(df[i], column_mapping[MOBILE_NO].value)
                /\ \A f \in ParamFields :
                      (column_mapping[f].type = "column"
                       /\ ~(f = MEDIA /\ FinalImg(df[i]) # <<>>))
                      => sent[i][1].notification.params[f]
                           = JsonString(Strip(LookedUp(df[i], column_mapping[f].value)))
                /\ Terminal(i) => fut[i].response.kind # "none")
    /\ [][df' = df /\ column_mapping' = column_mapping]_vars

\* A task has ended whose number was looked up under a name the row does
\* not have, and the number it posted is the empty string.
C17_Witness ==
    \E i \in Rows :
        /\ Terminal(i)
        /\ column_mapping[MOBILE_NO].value \notin DOMAIN df[i]
        /\ Len(sent[i]) = 1
        /\ sent[i][1].userDetails.number = <<>>

\* The stored templates of a name.
Named(templates, template_name) ==
    {k \in DOMAIN templates : templates[k].template_name = template_name}

\* C18: update_template_mapping(name, mappings), as the Send handler calls
\* it, changes nothing of the store but the mappings of a stored template
\* named name, which become mappings: the number of templates, and every
\* template's name, id and message stay.  When every stored template of
\* that name has these mappings already, and when no stored template has
\* that name, the file is not written and the cache is not cleared.  The
\* update applied again to its own result changes and writes nothing.
C18_OnlyMappingsChange ==
    /\ [][(phase = "setup" /\ phase' = "running") =>
            LET name == template_obj.template_name
                named == Named(templates_file, name)
            IN  /\ Len(templates_file') = Len(templates_file)
                /\ \A k \in DOMAIN templates_file :
                      /\ templates_file'[k].template_name = templates_file[k].template_name
                      /\ templates_file'[k].template_id = templates_file[k].template_id
                      /\ templates_file'[k].message = templates_file[k].message
                      /\ templates_file'[k].mappings # templates_file[k].mappings
                            => (k \in named /\ templates_file'[k].mappings = MappingToSave)
                /\ named # {} =>
                      \E k \in named : templates_file'[k].mappings = MappingToSave
                /\ (\A k \in named : templates_file[k].mappings = MappingToSave)
                      => UNCHANGED storeVars
                /\ saves' # saves <=> templates_file' # templates_file
                /\ UpdateTemplateMapping(templates_file', name, MappingToSave) = templates_file'
                /\ ~MappingDiffers(templates_file', name, MappingToSave)
          ]_vars
    /\ [](\A name \in {NAME_T, NAME_O} :
            Named(templates_file, name) = {} =>
                /\ UpdateTemplateMapping(templates_file, name, SAVED_MAPPING) = templates_file
                /\ ~MappingDiffers(templates_file, name, SAVED_MAPPING))

\* The handler has saved a new mapping for the selected template of a
\* store that holds another template too: the file was written, the cache
\* is cleared, one template has the mapping and the other has not.
C18_Witness ==
    /\ phase = "running"
    /\ Len(templates_file) = 2
    /\ cache = NotCached
    /\ \E k \in DOMAIN templates_file :
          /\ templates_file[k].template_name = template_obj.template_name
          /\ templates_file[k].mappings = MappingToSave
          /\ template_obj.mappings # MappingToSave
    /\ \E k \in DOMAIN templates_file : templates_file[k].mappings # MappingToSave

\* C19: while a run dispatches, the template, the mapping and the table
\* are only read: the one write of the store in a run is made by the
\* handler before the first task is submitted, and from then on no step
\* changes the store, the selected template, the mapping, the image
\* choices or a row of the table.
C19_ReadOnlyDuringDispatch ==
    /\ [][phase \notin {"manage", "setup"} =>
            /\ UNCHANGED <<templates_file, saves>>
            /\ UNCHANGED <<df, df_columns, template_obj, column_mapping,
                           image_col_map, image_url>>]_vars
    /\ [][(phase = "setup" /\ templates_file' # templates_file) =>
            /\ saves' = saves + 1
            /\ phase' = "running"
            /\ submitted' = 0 /\ fut' = <<>> /\ \A i \in Rows : sent'[i] = <<>>]_vars
    /\ [](saves <= 1)

\* A batch of three rows is done and the store was written once.
C19_Witness ==
    /\ phase = "done" /\ Total = 3 /\ saves = 1
    /\ \E k \in DOMAIN templates_file : templates_file[k].mappings = MappingToSave

\* C20: after every sequence of add, update, delete and mapping update,
\* what get_templates_cached returns is the content of templates.json: a
\* loaded cache holds exactly the persisted list.
C20_CacheCoherent ==
    /\ GetTemplatesCached = templates_file
    /\ cache.loaded => cache.value = templates_file

\* The list was saved at least twice by the Manage Templates tab, the page
\* has read it through the cache again, and the cache holds a template.
C20_Witness ==
    /\ phase = "setup"
    /\ saves >= 2
    /\ cache.loaded /\ cache.value # <<>>

====
